---- MODULE Spec2Model ----
(***************************************************************************)
(* Task Manager API (examples/polyglot-fullstack/backend): the in-memory   *)
(* TaskStore (app/store.py), the request models (app/models.py) and the    *)
(* request handlers (app/main.py).                                         *)
(*                                                                         *)
(* Python values are encoded as follows.  An optional value (X | None) is  *)
(* a sequence of length at most one: None is <<>> and the value v is       *)
(* <<v>>.  A str is the sequence of its characters.  A datetime is the     *)
(* reading of the wall clock, an integer.  A dict is the sequence of its   *)
(* values in insertion order (every Task carries its own key, id).         *)
(***************************************************************************)
EXTENDS Integers, Sequences, FiniteSets, TLC

\* Bounds of the model.
MaxUUIDs == 3
MaxSteps == 3

\* Field(min_length=1, max_length=200) of TaskCreate.title / TaskUpdate.title.
MinTitleLen == 1
MaxTitleLen == 200

VARIABLES
    tasks,      \* TaskStore._tasks: the Tasks, in dict insertion order
    used,       \* the UUIDs uuid4() has returned so far
    clock,      \* the wall clock that datetime.now(UTC) reads
    steps,      \* number of steps that have changed _tasks or the clock
    response,   \* the last response sent, with the handler that sent it
    calls       \* the requests in flight and served, each with the position
                \* of its handler and what the handler has read and written

vars == <<tasks, used, clock, steps, response, calls>>

----------------------------------------------------------------------------
\* Optional values.

None == <<>>

Some(v) == <<v>>

Val(o) == o[1]

----------------------------------------------------------------------------
\* The values requests are drawn from.

UUIDs == 1..MaxUUIDs

Rep(n) == [i \in 1..n |-> "x"]

\* Titles a client may send: "", "x", "x" * 200, "x" * 201.
TitleInputs == {Rep(0), Rep(MinTitleLen), Rep(MaxTitleLen), Rep(MaxTitleLen + 1)}

FieldNames == {"title", "completed"}

\* A JSON request body: the keys present and their values (a key that is
\* absent reads as None, the default of the field; a key that is present
\* may carry null).
Bodies ==
    {b \in [fields_set : SUBSET FieldNames,
            title : {None} \cup {Some(t) : t \in TitleInputs},
            completed : {None, Some(TRUE), Some(FALSE)}] :
        /\ ("title" \notin b.fields_set => b.title = None)
        /\ ("completed" \notin b.fields_set => b.completed = None)}

CreateBodies == {b \in Bodies : "completed" \notin b.fields_set}

\* The {task_id} segment of a request path: the textual form and the UUID it
\* spells when the form is one the UUID parser accepts.
PathTokens ==
    {[form |-> "hyphenated", n |-> u] : u \in UUIDs}
        \cup {[form |-> "malformed", n |-> 0]}

----------------------------------------------------------------------------
\* app/models.py

\* TitleOk with max_length taken as an exclusive bound.
TitleOk_exclusive(t) == Len(t) >= MinTitleLen /\ Len(t) < MaxTitleLen

\* str with min_length / max_length.
TitleOk(t) == Len(t) >= MinTitleLen /\ Len(t) <= MaxTitleLen

\* TaskCreate: title is required and is a str of 1..200 characters.
ValidTaskCreate(b) ==
    /\ "title" \in b.fields_set
    /\ b.title # None
    /\ TitleOk(Val(b.title))

\* TaskUpdate: title is str | None with the length constraints on the str;
\* completed is bool | None.
ValidTaskUpdate(b) ==
    b.title # None => TitleOk(Val(b.title))

\* Task: the field types of the response model.
ValidTask(t) ==
    /\ t.title # None
    /\ t.completed # None

\* task_id: UUID -- the path parameter is parsed before the handler runs.
ParseUUID(tok) ==
    IF tok.form = "hyphenated" THEN Some(tok.n) ELSE None

\* model_dump without exclude_unset: every field, the unset ones as None.
model_dump_all(data) ==
    [f \in FieldNames |-> IF f = "title" THEN data.title ELSE data.completed]

\* TaskUpdate.model_dump(exclude_unset=True): the fields that were set.
model_dump(data) ==
    [f \in data.fields_set |-> IF f = "title" THEN data.title ELSE data.completed]

\* Task.model_copy(update=...): the fields named are replaced, unvalidated.
\* model_copy that leaves updated_at as it was.
model_copy_unstamped(task, update_data) ==
    [f \in DOMAIN task |->
        IF f \in DOMAIN update_data /\ f # "updated_at" THEN update_data[f]
        ELSE task[f]]

model_copy(task, update_data) ==
    [f \in DOMAIN task |-> IF f \in DOMAIN update_data THEN update_data[f] ELSE task[f]]

----------------------------------------------------------------------------
\* app/store.py

Index(ts, task_id) == {i \in 1..Len(ts) : ts[i].id = task_id}

\* sorted(..., key=created_at) without reverse=True: oldest first.
InsertByCreatedAsc(s, t) ==
    LET p == Cardinality({i \in 1..Len(s) : s[i].created_at <= t.created_at})
    IN  SubSeq(s, 1, p) \o <<t>> \o SubSeq(s, p + 1, Len(s))

\* sorted(..., key=created_at, reverse=True) is stable: s is sorted, and t
\* goes after every element whose key is not smaller.
InsertByCreatedDesc(s, t) ==
    LET p == Cardinality({i \in 1..Len(s) : s[i].created_at >= t.created_at})
    IN  SubSeq(s, 1, p) \o <<t>> \o SubSeq(s, p + 1, Len(s))

RECURSIVE list_all(_)
list_all(ts) ==
    IF ts = <<>> THEN <<>>
    ELSE InsertByCreatedDesc(list_all(SubSeq(ts, 1, Len(ts) - 1)), ts[Len(ts)])

\* TaskStore.get: the Task, or None.
get(ts, task_id) ==
    IF Index(ts, task_id) = {} THEN None
    ELSE Some(ts[CHOOSE i \in Index(ts, task_id) : TRUE])

\* self._tasks[key] = value: an existing key keeps its place in the dict.
SetItem(ts, task) ==
    IF Index(ts, task.id) = {} THEN Append(ts, task)
    ELSE [i \in 1..Len(ts) |-> IF ts[i].id = task.id THEN task ELSE ts[i]]

\* del self._tasks[key]
DelItem(ts, task_id) ==
    SelectSeq(ts, LAMBDA t : t.id # task_id)

\* create reading the clock once for each timestamp, the clock moving between.
create_two_readings(ts, data, uuid, now) ==
    LET task == [id |-> uuid, title |-> data.title, completed |-> Some(FALSE),
                 created_at |-> now, updated_at |-> now + 1]
    IN  [tasks |-> SetItem(ts, task), ret |-> Some(task)]

\* TaskStore.create with the values of uuid4() and datetime.now(UTC):
\* the new _tasks and the Task returned.
create(ts, data, uuid, now) ==
    LET task == [id |-> uuid, title |-> data.title, completed |-> Some(FALSE),
                 created_at |-> now, updated_at |-> now]
    IN  [tasks |-> SetItem(ts, task), ret |-> Some(task)]

\* update without the test "if update_data": updated_at is always stamped.
update_always_stamps(ts, task_id, data, now) ==
    LET found == get(ts, task_id) IN
    IF found = None THEN [tasks |-> ts, ret |-> None]
    ELSE LET update_data == model_dump(data)
             updated_task ==
                 model_copy(Val(found),
                            [f \in DOMAIN update_data \cup {"updated_at"} |->
                                IF f = "updated_at" THEN now ELSE update_data[f]])
         IN  [tasks |-> SetItem(ts, updated_task), ret |-> Some(updated_task)]

\* update stamping created_at where the code stamps updated_at.
update_stamps_created(ts, task_id, data, now) ==
    LET found == get(ts, task_id) IN
    IF found = None THEN [tasks |-> ts, ret |-> None]
    ELSE LET update_data == model_dump(data) IN
         IF DOMAIN update_data # {}
         THEN LET updated_task ==
                      model_copy(Val(found),
                                 [f \in DOMAIN update_data \cup {"created_at"} |->
                                     IF f = "created_at" THEN now ELSE update_data[f]])
              IN  [tasks |-> SetItem(ts, updated_task), ret |-> Some(updated_task)]
         ELSE [tasks |-> ts, ret |-> found]

\* update stamping updated_at only when a supplied value differs from the
\* stored one.
update_stamps_on_change(ts, task_id, data, now) ==
    LET found == get(ts, task_id) IN
    IF found = None THEN [tasks |-> ts, ret |-> None]
    ELSE LET update_data == model_dump(data) IN
         IF \E f \in DOMAIN update_data : update_data[f] # Val(found)[f]
         THEN LET updated_task ==
                      model_copy(Val(found),
                                 [f \in DOMAIN update_data \cup {"updated_at"} |->
                                     IF f = "updated_at" THEN now ELSE update_data[f]])
              IN  [tasks |-> SetItem(ts, updated_task), ret |-> Some(updated_task)]
         ELSE [tasks |-> ts, ret |-> found]

\* TaskStore.update: the new _tasks and the Task returned (None: not found).
update(ts, task_id, data, now) ==
    LET found == get(ts, task_id) IN
    IF found = None THEN [tasks |-> ts, ret |-> None]
    ELSE LET update_data == model_dump(data) IN
         IF DOMAIN update_data # {}
         THEN LET updated_task ==
                      model_copy(Val(found),
                                 [f \in DOMAIN update_data \cup {"updated_at"} |->
                                     IF f = "updated_at" THEN now ELSE update_data[f]])
              IN  [tasks |-> SetItem(ts, updated_task), ret |-> Some(updated_task)]
         ELSE [tasks |-> ts, ret |-> found]

\* delete without the del statement.
delete_keeps(ts, task_id) ==
    [tasks |-> ts, ret |-> Index(ts, task_id) # {}]

\* delete as pop(task_id, None) followed by return True.
delete_always_true(ts, task_id) ==
    [tasks |-> DelItem(ts, task_id), ret |-> TRUE]

\* TaskStore.delete: the new _tasks and the bool returned.
delete(ts, task_id) ==
    IF Index(ts, task_id) # {}
    THEN [tasks |-> DelItem(ts, task_id), ret |-> TRUE]
    ELSE [tasks |-> ts, ret |-> FALSE]

----------------------------------------------------------------------------
\* app/main.py

NotFoundDetail == "Task not found"

Response(op, status, detail, task, list) ==
    [op |-> op, status |-> status, detail |-> detail, task |-> task, list |-> list]

\* RequestValidationError: a path parameter or the body failed validation.
Unprocessable(op) == Response(op, 422, "validation error", None, <<>>)

\* HTTPException(status_code=404, detail="Task not found")
NotFound(op) == Response(op, 404, NotFoundDetail, None, <<>>)

\* The response of a handler that returns Tasks under response_model=Task /
\* list[Task].  A Task built by model_copy may not fit the response model;
\* what the framework does with it depends on its version: it is sent as it
\* is, or the response fails validation (500).
Responses(op, status, task, list) ==
    IF \A i \in 1..Len(task \o list) : ValidTask((task \o list)[i])
    THEN {Response(op, status, "", task, list)}
    ELSE {Response(op, status, "", task, list),
          Response(op, 500, "Internal Server Error", None, <<>>)}

\* What a handler does with a request, given the store, the UUIDs uuid4()
\* has returned and the reading of the clock: the outcomes it can have, each
\* the store it leaves, the UUIDs returned by then and the response it sends.
Outcome(ts, usd, resp) == [tasks |-> ts, used |-> usd, response |-> resp]

\* uuid4() draws a UUID at random.  That two draws never collide is assumed
\* here, not modelled: the UUIDs that can be drawn are those not drawn
\* before.  Nothing in the program depends on which of them it is, so the
\* least one stands for them all.
uuid4(usd) == {u \in UUIDs \ usd : \A v \in UUIDs \ usd : u <= v}

\* GET /api/tasks
list_tasks_outcomes(ts, usd) ==
    {Outcome(ts, usd, resp) : resp \in Responses("list", 200, None, list_all(ts))}

\* POST /api/tasks
create_task_outcomes(ts, usd, body, now) ==
    IF ~ValidTaskCreate(body)
    THEN {Outcome(ts, usd, Unprocessable("create"))}
    ELSE UNION {LET r == create(ts, [title |-> body.title], uuid, now) IN
                {Outcome(r.tasks, usd \cup {uuid}, resp) :
                    resp \in Responses("create", 201, r.ret, <<>>)} :
                uuid \in uuid4(usd)}

\* GET /api/tasks/{task_id}
get_task_outcomes(ts, usd, tok) ==
    IF ParseUUID(tok) = None
    THEN {Outcome(ts, usd, Unprocessable("get"))}
    ELSE LET task == get(ts, Val(ParseUUID(tok))) IN
         IF task = None
         THEN {Outcome(ts, usd, NotFound("get"))}
         ELSE {Outcome(ts, usd, resp) : resp \in Responses("get", 200, task, <<>>)}

\* PATCH /api/tasks/{task_id}
update_task_outcomes(ts, usd, tok, body, now) ==
    IF ParseUUID(tok) = None \/ ~ValidTaskUpdate(body)
    THEN {Outcome(ts, usd, Unprocessable("update"))}
    ELSE LET r == update(ts, Val(ParseUUID(tok)), body, now) IN
         IF r.ret = None
         THEN {Outcome(r.tasks, usd, NotFound("update"))}
         ELSE {Outcome(r.tasks, usd, resp) :
                  resp \in Responses("update", 200, r.ret, <<>>)}

\* DELETE /api/tasks/{task_id}
delete_task_outcomes(ts, usd, tok) ==
    IF ParseUUID(tok) = None
    THEN {Outcome(ts, usd, Unprocessable("delete"))}
    ELSE LET r == delete(ts, Val(ParseUUID(tok))) IN
         IF ~r.ret
         THEN {Outcome(r.tasks, usd, NotFound("delete"))}
         ELSE {Outcome(r.tasks, usd, Response("delete", 204, "", None, <<>>))}

----------------------------------------------------------------------------
\* The state machine: one request is handled at a time.

\* A step takes the outcome o; one that changes the store counts as a step.
Take(o) ==
    /\ o.tasks # tasks => steps < MaxSteps
    /\ tasks' = o.tasks
    /\ used' = o.used
    /\ response' = o.response
    /\ steps' = IF o.tasks = tasks THEN steps ELSE steps + 1
    /\ UNCHANGED <<clock, calls>>

list_tasks == \E o \in list_tasks_outcomes(tasks, used) : Take(o)

create_task(body) ==
    \E o \in create_task_outcomes(tasks, used, body, clock) : Take(o)

get_task(tok) == \E o \in get_task_outcomes(tasks, used, tok) : Take(o)

update_task(tok, body) ==
    \E o \in update_task_outcomes(tasks, used, tok, body, clock) : Take(o)

delete_task(tok) == \E o \in delete_task_outcomes(tasks, used, tok) : Take(o)

\* TaskStore.clear, called by the client fixture of the tests before a test.
\* It is no request and sends nothing: the response record marks the call.
clear_outcomes(ts, usd) ==
    {Outcome(<<>>, usd, Response("clear", 0, "", None, <<>>))}

clear == \E o \in clear_outcomes(tasks, used) : Take(o)

\* Time passes between two requests: two readings of the clock are equal
\* when none has passed.
Tick ==
    /\ steps < MaxSteps
    /\ clock' = clock + 1
    /\ steps' = steps + 1
    /\ UNCHANGED <<tasks, used, response, calls>>

Init ==
    /\ tasks = <<>>
    /\ used = {}
    /\ clock = 0
    /\ steps = 0
    /\ response = Response("none", 0, "", None, <<>>)
    /\ calls = <<>>

Next ==
    \/ list_tasks
    \/ \E body \in CreateBodies : create_task(body)
    \/ \E tok \in PathTokens : get_task(tok)
    \/ \E tok \in PathTokens, body \in Bodies : update_task(tok, body)
    \/ \E tok \in PathTokens : delete_task(tok)
    \/ clear
    \/ Tick

Spec == Init /\ [][Next]_vars

----------------------------------------------------------------------------
\* Vocabulary of the properties.

Hyphenated(u) == [form |-> "hyphenated", n |-> u]

Malformed == [form |-> "malformed", n |-> 0]

EmptyBody == [fields_set |-> {}, title |-> None, completed |-> None]

\* The bodies that pass TaskUpdate: what the handler hands to the store.
TaskUpdates == {b \in Bodies : ValidTaskUpdate(b)}

Live(ts) == {ts[i].id : i \in 1..Len(ts)}

\* ts and ts2 hold the same Tasks in the same order, but for the Task task_id.
SameButFor(ts, ts2, task_id) ==
    /\ Len(ts2) = Len(ts)
    /\ \A j \in 1..Len(ts) : ts[j].id # task_id => ts2[j] = ts[j]

----------------------------------------------------------------------------
\* C1.  In every reachable state and for every valid title t (1..200
\* characters), POST /api/tasks with t answers 201 with a Task whose title is
\* t, whose completed is false and whose created_at equals updated_at, and a
\* GET of the returned id right afterwards answers 200 with exactly that Task.
CreateThenGet ==
    \A t \in TitleInputs : TitleOk(t) =>
        LET body == [fields_set |-> {"title"}, title |-> Some(t), completed |-> None] IN
        \A o \in create_task_outcomes(tasks, used, body, clock) :
            /\ o.response.status = 201
            /\ o.response.task # None
            /\ LET task == Val(o.response.task) IN
               /\ task.title = Some(t)
               /\ task.completed = Some(FALSE)
               /\ task.created_at = task.updated_at
               /\ get(o.tasks, task.id) = Some(task)
               /\ \A g \in get_task_outcomes(o.tasks, o.used, Hyphenated(task.id)) :
                      g.response.status = 200 /\ g.response.task = Some(task)

\* A Task titled "x" * 200 has just been created in a store that held another
\* Task, and the store returns it under its id.
CreateThenGetWitness ==
    /\ response.op = "create"
    /\ response.status = 201
    /\ Len(tasks) >= 2
    /\ Val(response.task).title = Some(Rep(MaxTitleLen))
    /\ get(tasks, Val(response.task).id) = response.task

\* C2.  In every reachable state, TaskStore.update of a live Task with a
\* partial that supplies at least one of title and completed stores and
\* returns a record in which the supplied fields have the supplied values
\* (an explicit completed=false included), updated_at is the time of the
\* call, and id, created_at and the fields not supplied are as before; every
\* other Task of the store is left as it was.
UpdateChangesOnlySupplied ==
    \A i \in 1..Len(tasks) : \A data \in TaskUpdates : data.fields_set # {} =>
        LET old == tasks[i]
            r == update(tasks, old.id, data, clock)
        IN  /\ r.ret # None
            /\ get(r.tasks, old.id) = r.ret
            /\ SameButFor(tasks, r.tasks, old.id)
            /\ LET new == Val(r.ret) IN
               /\ new.id = old.id
               /\ new.created_at = old.created_at
               /\ new.updated_at = clock
               /\ new.title = IF "title" \in data.fields_set THEN data.title ELSE old.title
               /\ new.completed =
                      IF "completed" \in data.fields_set THEN data.completed
                      ELSE old.completed

\* A Task created with the title "x" * 200 has just been marked completed,
\* later than it was created: the title and created_at are as they were, and
\* updated_at is the time of the update.
UpdateChangesOnlySuppliedWitness ==
    /\ response.op = "update"
    /\ response.status = 200
    /\ get(tasks, Val(response.task).id) = response.task
    /\ Val(response.task).completed = Some(TRUE)
    /\ Val(response.task).title = Some(Rep(MaxTitleLen))
    /\ Val(response.task).updated_at = clock
    /\ Val(response.task).created_at < clock

\* C3.  In every reachable state, an update of a live Task with an empty
\* partial returns the stored Task as it is, updated_at included, and leaves
\* the whole store as it was; PATCH with the body {} changes nothing in the
\* store either.
EmptyUpdateIsNoOp ==
    \A i \in 1..Len(tasks) :
        LET r == update(tasks, tasks[i].id, EmptyBody, clock) IN
        /\ r.ret = Some(tasks[i])
        /\ r.tasks = tasks
        /\ \A o \in update_task_outcomes(tasks, used, Hyphenated(tasks[i].id),
                                         EmptyBody, clock) :
               /\ o.tasks = tasks
               /\ o.response.status = 200 => o.response.task = Some(tasks[i])

\* The response is that of PATCH with the body {} to a live Task that was last
\* written before the clock moved: updated_at is still the earlier time.
EmptyUpdateIsNoOpWitness ==
    /\ response.status = 200
    /\ response.task # None
    /\ Val(response.task).updated_at < clock
    /\ Outcome(tasks, used, response)
           \in update_task_outcomes(tasks, used, Hyphenated(Val(response.task).id),
                                    EmptyBody, clock)

\* C4.  In every reachable state, delete of a live Task returns true / 204
\* and removes that Task and no other; afterwards get of the id finds nothing
\* (404) and a second delete of it reports that it did not exist (false / 404).
DeleteThenGone ==
    \A i \in 1..Len(tasks) :
        LET task_id == tasks[i].id
            r == delete(tasks, task_id)
        IN  /\ r.ret = TRUE
            /\ r.tasks = [j \in 1..Len(tasks) - 1 |->
                             IF j < i THEN tasks[j] ELSE tasks[j + 1]]
            /\ get(r.tasks, task_id) = None
            /\ delete(r.tasks, task_id) = [tasks |-> r.tasks, ret |-> FALSE]
            /\ \A o \in delete_task_outcomes(tasks, used, Hyphenated(task_id)) :
                  /\ o.response.status = 204
                  /\ o.tasks = r.tasks
                  /\ \A g \in get_task_outcomes(o.tasks, o.used, Hyphenated(task_id)) :
                         g.response = NotFound("get")
                  /\ \A d \in delete_task_outcomes(o.tasks, o.used, Hyphenated(task_id)) :
                         d.response = NotFound("delete") /\ d.tasks = o.tasks

\* A Task has just been deleted (its UUID was drawn and is no longer live)
\* and another Task is still in the store.
DeleteThenGoneWitness ==
    /\ response.op = "delete"
    /\ response.status = 204
    /\ tasks # <<>>
    /\ used \ Live(tasks) # {}

\* C5.  Three Tasks A, B, C created in that order, with no delete in between:
\* GET /api/tasks lists them as [C, B, A], whatever the times of the three
\* creations were.
ListNewestFirst ==
    (/\ response.op = "list"
     /\ response.status = 200
     /\ Len(tasks) = 3
     /\ Live(tasks) = used)
        => response.list = <<tasks[3], tasks[2], tasks[1]>>

\* C6.  A get, update or delete whose {task_id} is malformed is answered like
\* one whose id is unknown: 404 with the detail "Task not found", the store
\* left as it was.
MalformedIdIsNotFound ==
    [][(\/ get_task(Malformed)
        \/ delete_task(Malformed)
        \/ \E body \in Bodies : update_task(Malformed, body))
          => /\ response'.status = 404
             /\ response'.detail = "Task not found"
             /\ tasks' = tasks]_vars

\* C7.  In every reachable state, the title of every stored Task is text of
\* 1 to 200 characters.
StoredTitlesValid ==
    \A i \in 1..Len(tasks) :
        tasks[i].title # None /\ TitleOk(Val(tasks[i].title))

\* C8.  In every reachable state, a create whose title is missing, null,
\* empty or longer than 200 characters, and an update that supplies an empty
\* or too long title, is answered 422 with the store left as it was, for an
\* update whatever the {task_id} is (live, unknown or malformed); a title of
\* exactly 200 characters is accepted by both and stored.
InvalidTitleRejected ==
    /\ \A body \in CreateBodies :
           \A o \in create_task_outcomes(tasks, used, body, clock) :
               IF body.title # None /\ Len(Val(body.title)) \in 1..200
               THEN o.response.status = 201 /\ o.tasks # tasks
               ELSE o.response = Unprocessable("create") /\ o.tasks = tasks
    /\ \A tok \in PathTokens : \A body \in Bodies :
           \A o \in update_task_outcomes(tasks, used, tok, body, clock) :
               IF body.title # None /\ Len(Val(body.title)) \notin 1..200
               THEN o.response = Unprocessable("update") /\ o.tasks = tasks
               ELSE (tok.form = "hyphenated" /\ tok.n \in Live(tasks)
                        /\ body.title = Some(Rep(200))) =>
                       /\ o.response.status # 422
                       /\ Val(get(o.tasks, tok.n)).title = Some(Rep(200))

\* The response is the 422 of a PATCH that sent the title "x" * 201 to a live
\* Task, and the store holds a Task whose title has 200 characters.
InvalidTitleRejectedWitness ==
    /\ response = Unprocessable("update")
    /\ \E i \in 1..Len(tasks) : tasks[i].title = Some(Rep(200))
    /\ \E i \in 1..Len(tasks) :
           Outcome(tasks, used, response)
               \in update_task_outcomes(tasks, used, Hyphenated(tasks[i].id),
                      [fields_set |-> {"title"}, title |-> Some(Rep(201)),
                       completed |-> None], clock)

\* C10.  In every reachable state, a get, an update (with any partial that
\* passes validation) or a delete of a well-formed id that has no live Task
\* finds nothing (None / False at the store, 404 with the detail "Task not
\* found" at the API) and leaves the store exactly as it was.
UnknownIdIsNotFound ==
    \A u \in UUIDs \ Live(tasks) :
        /\ get(tasks, u) = None
        /\ delete(tasks, u) = [tasks |-> tasks, ret |-> FALSE]
        /\ \A o \in get_task_outcomes(tasks, used, Hyphenated(u)) :
               o.response = NotFound("get") /\ o.tasks = tasks
        /\ \A o \in delete_task_outcomes(tasks, used, Hyphenated(u)) :
               o.response = NotFound("delete") /\ o.tasks = tasks
        /\ \A data \in TaskUpdates :
               /\ update(tasks, u, data, clock) = [tasks |-> tasks, ret |-> None]
               /\ \A o \in update_task_outcomes(tasks, used, Hyphenated(u), data, clock) :
                      o.response = NotFound("update") /\ o.tasks = tasks

\* The response is the 404 of a PATCH to an id that was deleted, while
\* another Task is live.
UnknownIdIsNotFoundWitness ==
    /\ response = NotFound("update")
    /\ response.detail = "Task not found"
    /\ tasks # <<>>
    /\ used \ Live(tasks) # {}

\* C13.  In every reachable state, every stored Task has
\* updated_at >= created_at.
UpdatedNotBeforeCreated ==
    \A i \in 1..Len(tasks) : tasks[i].updated_at >= tasks[i].created_at

\* A Task has been updated later than it was created.
UpdatedNotBeforeCreatedWitness ==
    /\ response.op = "update"
    /\ response.status = 200
    /\ \E i \in 1..Len(tasks) :
           /\ response.task = Some(tasks[i])
           /\ tasks[i].updated_at > tasks[i].created_at

\* C15.  In every reachable state, list_all returns every live Task exactly
\* once and nothing else, in non-increasing order of created_at (the empty
\* sequence for the empty store), and GET /api/tasks leaves the store as it
\* was and sends that sequence when it answers 200.
ListAllLiveSorted ==
    LET l == list_all(tasks) IN
    /\ Len(l) = Len(tasks)
    /\ \A i \in 1..Len(tasks) :
           Cardinality({j \in 1..Len(l) : l[j] = tasks[i]}) = 1
    /\ \A j \in 1..Len(l) : l[j].id \in Live(tasks) /\ l[j].id \in used
    /\ \A j \in 1..Len(l) - 1 : l[j].created_at >= l[j + 1].created_at
    /\ (tasks = <<>> => l = <<>>)
    /\ \A o \in list_tasks_outcomes(tasks, used) :
           /\ o.tasks = tasks
           /\ o.response.status = 200 => o.response.list = l

\* GET /api/tasks has just listed two Tasks created at different times, the
\* later one first.
ListAllLiveSortedWitness ==
    /\ response.op = "list"
    /\ response.status = 200
    /\ Len(response.list) = 2
    /\ response.list[1].created_at > response.list[2].created_at
    /\ response.list = <<tasks[2], tasks[1]>>

\* C16 as stated.  An update whose supplied values all equal the Task's
\* current values leaves updated_at as it was.
UpdatedAtResetOnlyOnChange ==
    [][\A i \in 1..Len(tasks) : \A data \in TaskUpdates :
           (/\ data.fields_set # {}
            /\ \A f \in data.fields_set : data[f] = tasks[i][f]
            /\ update_task(Hyphenated(tasks[i].id), data))
              => \E j \in 1..Len(tasks') :
                     /\ tasks'[j].id = tasks[i].id
                     /\ tasks'[j].updated_at = tasks[i].updated_at]_vars

\* C16 as amended.  An update of a live Task sets updated_at to the time of
\* the call whenever its partial supplies at least one field, the supplied
\* values being new or not; with no field supplied updated_at stays.
UpdatedAtResetOnSupplied ==
    \A i \in 1..Len(tasks) : \A data \in TaskUpdates :
        LET r == update(tasks, tasks[i].id, data, clock) IN
        /\ r.ret # None
        /\ Val(r.ret).updated_at =
               IF data.fields_set # {} THEN clock ELSE tasks[i].updated_at
        /\ Val(get(r.tasks, tasks[i].id)).updated_at = Val(r.ret).updated_at

\* The response is that of PATCH {"completed": false} to a Task that has never
\* been completed: completed is what it was while updated_at is the time of
\* the call, later than created_at.
UpdatedAtResetOnSuppliedWitness ==
    /\ response.status = 200
    /\ response.task # None
    /\ Val(response.task).completed = Some(FALSE)
    /\ Val(response.task).updated_at = clock
    /\ Val(response.task).created_at < clock
    /\ Outcome(tasks, used, response)
           \in update_task_outcomes(tasks, used, Hyphenated(Val(response.task).id),
                  [fields_set |-> {"completed"}, title |-> None,
                   completed |-> Some(FALSE)], clock)

\* C17.  In every reachable state, completed of every stored Task is a
\* boolean.
StoredCompletedBoolean ==
    \A i \in 1..Len(tasks) :
        tasks[i].completed # None /\ Val(tasks[i].completed) \in BOOLEAN

----------------------------------------------------------------------------
\* Requests in flight together.  A handler is a sequence of statements; each
\* statement that reads or writes _tasks, or reads the clock, is a step.

\* The number of requests of one run, and how often the clock moves in it.
MaxCalls == 3
MaxTicks == 1

\* The partials of the concurrent updates: one sets the title, the other
\* completes the task.
ConcBodies ==
    {[fields_set |-> {"title"}, title |-> Some(Rep(MaxTitleLen)), completed |-> None],
     [fields_set |-> {"completed"}, title |-> None, completed |-> Some(TRUE)]}

NoBody == [fields_set |-> {}, title |-> None, completed |-> None]

\* The requests a client can send once the ids in usd have been handed out.
Requests(usd) ==
    {[op |-> "update", id |-> u, body |-> b] : u \in usd, b \in ConcBodies}
    \cup {[op |-> o, id |-> u, body |-> NoBody] : o \in {"get", "delete"}, u \in usd}
    \cup {[op |-> "list", id |-> 0, body |-> NoBody]}
    \cup {[op |-> "create", id |-> 0,
           body |-> [fields_set |-> {"title"}, title |-> Some(Rep(MinTitleLen)),
                     completed |-> None]]}

\* A request that has arrived: its handler has not begun.  seen is the Task
\* the handler read from _tasks, at its reading of the clock, new the Task
\* it built, ret the Tasks it returned and flag what delete returned; began
\* and ended are the numbers of its first and last step among all steps.
Call(req) ==
    [op |-> req.op, id |-> req.id, body |-> req.body, pc |-> "start",
     seen |-> None, at |-> -1, new |-> None, ret |-> <<>>, flag |-> "none",
     began |-> -1, ended |-> -1]

\* A handler that has begun and not returned.
Running(c) == c.pc \notin {"start", "done"}

\* Handlers running on threads: any handler may take its next step.
CanRun_threads(cs, i) == cs[i].pc # "done"

\* Every handler is an "async def" without an await, called on the one
\* event loop: once a handler has begun, no other handler takes a step
\* before it has returned.
CanRun(cs, i) ==
    /\ cs[i].pc # "done"
    /\ \A j \in DOMAIN cs : j # i => ~Running(cs[j])

\* The handler of call i moves to c; every step is an event.
Step(i, c, ts, usd) ==
    /\ calls' = [calls EXCEPT ![i] =
                    [c EXCEPT !.began = IF calls[i].began = -1 THEN steps + 1
                                        ELSE calls[i].began,
                              !.ended = IF c.pc = "done" THEN steps + 1 ELSE -1]]
    /\ tasks' = ts
    /\ used' = usd
    /\ steps' = steps + 1
    /\ UNCHANGED <<clock, response>>

\* The place of a request in the list of those in flight.
Rank(req) ==
    LET ops == <<"create", "update", "delete", "get", "list">> IN
    2 * (CHOOSE k \in DOMAIN ops : ops[k] = req.op)
        + (IF "completed" \in req.body.fields_set THEN 1 ELSE 0)

\* The requests of a run are in flight together: all have arrived before
\* the first handler begins.  Which of them the event loop serves first
\* does not depend on the order of their arrival, so they are listed in
\* one order, by Rank.
Arrive(req) ==
    /\ Len(calls) < MaxCalls
    /\ \A j \in DOMAIN calls : calls[j].pc = "start" /\ Rank(calls[j]) <= Rank(req)
    /\ calls' = Append(calls, Call(req))
    /\ UNCHANGED <<tasks, used, clock, steps, response>>

\* list_all: return sorted(self._tasks.values(), ...)
list_read(i) ==
    /\ calls[i].op = "list" /\ calls[i].pc = "start" /\ CanRun(calls, i)
    /\ Step(i, [calls[i] EXCEPT !.ret = list_all(tasks), !.pc = "done"], tasks, used)

\* get: return self._tasks.get(task_id)
get_read(i) ==
    /\ calls[i].op = "get" /\ calls[i].pc = "start" /\ CanRun(calls, i)
    /\ Step(i, [calls[i] EXCEPT !.ret = get(tasks, calls[i].id), !.pc = "done"],
            tasks, used)

\* create: now = datetime.now(UTC); task = Task(id=uuid4(), ...)
create_now(i) ==
    /\ calls[i].op = "create" /\ calls[i].pc = "start" /\ CanRun(calls, i)
    /\ \E uuid \in uuid4(used) :
           Step(i, [calls[i] EXCEPT !.id = uuid, !.at = clock,
                                    !.new = create(tasks, calls[i].body, uuid, clock).ret,
                                    !.pc = "set"],
                tasks, used \cup {uuid})

\* create: self._tasks[task.id] = task; return task
create_set(i) ==
    /\ calls[i].op = "create" /\ calls[i].pc = "set" /\ CanRun(calls, i)
    /\ Step(i, [calls[i] EXCEPT !.ret = calls[i].new, !.pc = "done"],
            SetItem(tasks, Val(calls[i].new)), used)

\* update: task = self._tasks.get(task_id); if task is None: return None;
\* update_data = data.model_dump(exclude_unset=True); if it is empty:
\* return task
update_get(i) ==
    /\ calls[i].op = "update" /\ calls[i].pc = "start" /\ CanRun(calls, i)
    /\ LET task == get(tasks, calls[i].id) IN
       Step(i, IF task = None THEN [calls[i] EXCEPT !.pc = "done"]
               ELSE IF DOMAIN model_dump(calls[i].body) = {}
               THEN [calls[i] EXCEPT !.seen = task, !.ret = task, !.pc = "done"]
               ELSE [calls[i] EXCEPT !.seen = task, !.pc = "now"],
            tasks, used)

\* update: update_data["updated_at"] = datetime.now(UTC);
\* updated_task = task.model_copy(update=update_data)
update_now(i) ==
    /\ calls[i].op = "update" /\ calls[i].pc = "now" /\ CanRun(calls, i)
    /\ LET update_data == model_dump(calls[i].body) IN
       Step(i, [calls[i] EXCEPT
                   !.at = clock,
                   !.new = Some(model_copy(Val(calls[i].seen),
                               [f \in DOMAIN update_data \cup {"updated_at"} |->
                                   IF f = "updated_at" THEN clock ELSE update_data[f]])),
                   !.pc = "set"],
            tasks, used)

\* update: self._tasks[task_id] = updated_task; return updated_task
update_set(i) ==
    /\ calls[i].op = "update" /\ calls[i].pc = "set" /\ CanRun(calls, i)
    /\ Step(i, [calls[i] EXCEPT !.ret = calls[i].new, !.pc = "done"],
            SetItem(tasks, Val(calls[i].new)), used)

\* delete: if task_id in self._tasks: ... return False
delete_check(i) ==
    /\ calls[i].op = "delete" /\ calls[i].pc = "start" /\ CanRun(calls, i)
    /\ Step(i, IF Index(tasks, calls[i].id) # {}
               THEN [calls[i] EXCEPT !.pc = "del"]
               ELSE [calls[i] EXCEPT !.flag = "false", !.pc = "done"],
            tasks, used)

\* delete: del self._tasks[task_id]; return True.  del raises KeyError when
\* the key is gone.
delete_del(i) ==
    /\ calls[i].op = "delete" /\ calls[i].pc = "del" /\ CanRun(calls, i)
    /\ Step(i, [calls[i] EXCEPT
                   !.flag = IF Index(tasks, calls[i].id) # {} THEN "true"
                            ELSE "KeyError",
                   !.pc = "done"],
            DelItem(tasks, calls[i].id), used)

\* Time passes, between two requests or while they wait.
TickConc ==
    /\ clock < MaxTicks
    /\ clock' = clock + 1
    /\ UNCHANGED <<tasks, used, steps, response, calls>>

\* The store after POST {"title": "x"} has been served: a state of Spec.
InitConc ==
    LET o == CHOOSE o \in create_task_outcomes(<<>>, {},
                 [fields_set |-> {"title"}, title |-> Some(Rep(MinTitleLen)),
                  completed |-> None], 0) : TRUE
    IN  /\ tasks = o.tasks
        /\ used = o.used
        /\ clock = 0
        /\ steps = 1
        /\ response = o.response
        /\ calls = <<>>

NextConc ==
    \/ \E req \in Requests(used) : Arrive(req)
    \/ \E i \in DOMAIN calls : list_read(i)
    \/ \E i \in DOMAIN calls : get_read(i)
    \/ \E i \in DOMAIN calls : create_now(i)
    \/ \E i \in DOMAIN calls : create_set(i)
    \/ \E i \in DOMAIN calls : update_get(i)
    \/ \E i \in DOMAIN calls : update_now(i)
    \/ \E i \in DOMAIN calls : update_set(i)
    \/ \E i \in DOMAIN calls : delete_check(i)
    \/ \E i \in DOMAIN calls : delete_del(i)
    \/ TickConc

SpecConc == InitConc /\ [][NextConc]_vars

----------------------------------------------------------------------------
\* Properties of requests in flight together.

\* The record an update makes of rec: the fields the partial supplies taken
\* from it, the others from rec, updated_at the time the update read.
Applied(rec, body, at) ==
    [id |-> rec.id,
     title |-> IF "title" \in body.fields_set THEN body.title ELSE rec.title,
     completed |-> IF "completed" \in body.fields_set THEN body.completed
                   ELSE rec.completed,
     created_at |-> rec.created_at,
     updated_at |-> at]

\* The updates that have found their task and written.
Wrote(i) ==
    /\ calls[i].op = "update" /\ calls[i].pc = "done" /\ calls[i].new # None

\* No call other than a and b has begun to change the task task_id.
OnlyWriters(a, b, task_id) ==
    \A k \in DOMAIN calls \ {a, b} :
        (calls[k].op \in {"update", "delete"} /\ calls[k].id = task_id)
            => calls[k].pc = "start"

\* C11: when two updates of one id were in flight together and both have
\* returned, the stored Task is the one update applied to what the other
\* made of the Task it found, and its updated_at is the time read by the
\* update that returned last.
ConcurrentUpdatesSerialize ==
    \A a, b \in DOMAIN calls :
        (/\ a # b /\ Wrote(a) /\ Wrote(b)
         /\ calls[a].id = calls[b].id
         /\ calls[a].ended < calls[b].ended
         /\ OnlyWriters(a, b, calls[a].id))
            => LET cur == get(tasks, calls[a].id) IN
               /\ cur # None
               /\ Val(cur) = Applied(Applied(Val(calls[a].seen), calls[a].body,
                                             calls[a].at),
                                     calls[b].body, calls[b].at)
               /\ Val(cur).updated_at = calls[b].at
               /\ calls[b].at >= calls[a].at

ConcurrentUpdatesSerializeWitness ==
    \E a, b \in DOMAIN calls :
        /\ Wrote(a) /\ Wrote(b) /\ calls[a].id = calls[b].id
        /\ calls[a].body # calls[b].body
        /\ calls[a].ended < calls[b].began
        /\ calls[a].at < calls[b].at
        /\ OnlyWriters(a, b, calls[a].id)
        /\ \E i \in 1..Len(tasks) :
               /\ tasks[i].id = calls[a].id
               /\ tasks[i].title = Some(Rep(MaxTitleLen))
               /\ tasks[i].completed = Some(TRUE)
               /\ tasks[i].updated_at = calls[b].at

\* The complete versions of the tasks: the Tasks as created, and what up to
\* k updates that have read the clock make of them.
RECURSIVE Versions(_)
Versions(k) ==
    IF k = 0
    THEN {Val(response.task)}
         \cup {[id |-> calls[c].id, title |-> calls[c].body.title,
                completed |-> Some(FALSE),
                created_at |-> calls[c].at, updated_at |-> calls[c].at] :
               c \in {c \in DOMAIN calls : calls[c].op = "create" /\ calls[c].at # -1}}
    ELSE LET V == Versions(k - 1) IN
         V \cup {Applied(vu[1], calls[vu[2]].body, calls[vu[2]].at) :
                 vu \in {vu \in V \X DOMAIN calls :
                            /\ calls[vu[2]].op = "update"
                            /\ calls[vu[2]].at # -1
                            /\ calls[vu[2]].id = vu[1].id}}

\* The readers that have returned.
Read(i) == calls[i].op \in {"get", "list"} /\ calls[i].pc = "done"

\* C12: every Task a get or a list_all has returned is a complete version:
\* a Task as created, or all of one update (its supplied fields and its
\* updated_at) applied to a complete version.
ReadersSeeCompleteVersions ==
    \A i \in DOMAIN calls :
        Read(i) => \A j \in 1..Len(calls[i].ret) :
                       calls[i].ret[j] \in Versions(Len(calls))

ReadersSeeCompleteVersionsWitness ==
    \E i, l, u \in DOMAIN calls :
        /\ Read(i) /\ calls[i].op = "get"
        /\ Read(l) /\ calls[l].op = "list"
        /\ Wrote(u) /\ calls[u].id = calls[i].id
        /\ calls[l].ended < calls[u].began /\ calls[u].ended < calls[i].began
        /\ calls[l].ret = <<Val(response.task)>>
        /\ calls[i].ret = <<Applied(Val(response.task), calls[u].body, calls[u].at)>>
        /\ calls[u].at > Val(response.task).updated_at

\* C14: once a delete of an id has returned True, the id is not in _tasks,
\* a get of it that begins later returns None and a list_all that begins
\* later holds no Task with that id.
DeleteIrreversible ==
    \A d \in DOMAIN calls :
        (calls[d].op = "delete" /\ calls[d].pc = "done" /\ calls[d].flag = "true")
            => /\ calls[d].id \notin Live(tasks)
               /\ \A r \in DOMAIN calls :
                      (Read(r) /\ calls[r].began > calls[d].ended)
                          => \A j \in 1..Len(calls[r].ret) :
                                 calls[r].ret[j].id # calls[d].id

DeleteIrreversibleWitness ==
    \E d, u, r \in DOMAIN calls :
        /\ calls[d].op = "delete" /\ calls[d].flag = "true"
        /\ calls[u].op = "update" /\ calls[u].id = calls[d].id
        /\ calls[u].pc = "done" /\ calls[u].began > calls[d].ended
        /\ calls[u].ret = None
        /\ calls[r].op = "get" /\ calls[r].id = calls[d].id
        /\ Read(r) /\ calls[r].began > calls[u].ended
        /\ calls[r].ret = None
        /\ calls[d].id \notin Live(tasks)

\* C18: no step lowers the updated_at of a Task that stays in _tasks.
UpdatedAtNeverDecreases ==
    [][\A i \in 1..Len(tasks) : \A j \in 1..Len(tasks') :
           tasks'[j].id = tasks[i].id
               => tasks'[j].updated_at >= tasks[i].updated_at]_vars

UpdatedAtNeverDecreasesWitness ==
    \E a, b \in DOMAIN calls : \E i \in 1..Len(tasks) :
        /\ Wrote(a) /\ Wrote(b) /\ calls[a].id = tasks[i].id
        /\ calls[b].id = tasks[i].id
        /\ calls[a].body = calls[b].body
        /\ calls[a].ended < calls[b].began
        /\ Val(calls[a].new).updated_at < Val(calls[b].new).updated_at
        /\ tasks[i] = Val(calls[b].new)

====
